---------------------------- MODULE Spec2Model ----------------------------
(***************************************************************************)
(* Model of TOOLS/GET-REF/getref.py: the two record builders               *)
(* (get_full_details, extract_from_search_result), the reconciliation loop *)
(* of search_and_download and the exit paths of main / __main__; and of     *)
(* print_summary of TOOLS/GET-REF/analyze_refs.py.                          *)
(*                                                                         *)
(* Python values are tagged records; a text is a sequence of one-character *)
(* strings (a literal of the source may be kept as one multi-character     *)
(* piece).  An attribute that the object does not have is Missing.         *)
(* Pass-through fields of a record that no branch of the code reads        *)
(* (title, journal, volume, ...) and the author list are not represented.  *)
(***************************************************************************)
EXTENDS Integers, Sequences, FiniteSets, TLC

---------------------------------------------------------------------------
(* Python values *)

PyNone == [t |-> "None"]
Missing == [t |-> "missing"]
Raised == [t |-> "raised"]
PyInt(n) == [t |-> "int", n |-> n]
PyStr(s) == [t |-> "str", s |-> s]

\* hasattr(obj, f)
HasAttr(obj, f) == obj[f] # Missing

\* truth value of a Python value in `x if v else y`
Truthy(v) ==
    CASE v.t = "int" -> v.n # 0
      [] v.t = "str" -> v.s # <<>>
      [] OTHER -> FALSE

Digits == {"0", "1", "2", "3", "4", "5", "6", "7", "8", "9"}

DigitVal(c) ==
    CASE c = "0" -> 0 [] c = "1" -> 1 [] c = "2" -> 2 [] c = "3" -> 3
      [] c = "4" -> 4 [] c = "5" -> 5 [] c = "6" -> 6 [] c = "7" -> 7
      [] c = "8" -> 8 [] c = "9" -> 9

DigitChar(d) ==
    CASE d = 0 -> "0" [] d = 1 -> "1" [] d = 2 -> "2" [] d = 3 -> "3"
      [] d = 4 -> "4" [] d = 5 -> "5" [] d = 6 -> "6" [] d = 7 -> "7"
      [] d = 8 -> "8" [] d = 9 -> "9"

\* str.strip(): drop leading and trailing blanks
RECURSIVE LStrip(_)
LStrip(s) == IF s # <<>> /\ Head(s) = " " THEN LStrip(Tail(s)) ELSE s

RECURSIVE RStrip(_)
RStrip(s) ==
    IF s # <<>> /\ s[Len(s)] = " " THEN RStrip(SubSeq(s, 1, Len(s) - 1)) ELSE s

Strip(s) == RStrip(LStrip(s))

\* s[p .. p+Len(sep)-1] = sep
MatchAt(s, sep, p) ==
    /\ p + Len(sep) - 1 <= Len(s)
    /\ SubSeq(s, p, p + Len(sep) - 1) = sep

\* str.split(sep): cut at every non-overlapping occurrence of sep, left to right
RECURSIVE Split(_, _)
Split(s, sep) ==
    LET hits == {p \in 1..Len(s) : MatchAt(s, sep, p)}
    IN  IF hits = {} THEN <<s>>
        ELSE LET p == CHOOSE q \in hits : \A r \in hits : q <= r
             IN  <<SubSeq(s, 1, p - 1)>> \o Split(SubSeq(s, p + Len(sep), Len(s)), sep)

RECURSIVE DigitsValue(_)
DigitsValue(s) ==
    IF s = <<>> THEN 0
    ELSE 10 * DigitsValue(SubSeq(s, 1, Len(s) - 1)) + DigitVal(s[Len(s)])

AllDigits(s) == s # <<>> /\ \A k \in 1..Len(s) : s[k] \in Digits

\* int(v): an int is itself; a text is stripped, then an optional sign and
\* decimal digits; anything else raises (ValueError / TypeError)
int(v) ==
    CASE v.t = "int" -> v
      [] v.t = "str" ->
            LET body == Strip(v.s)
                signed == body # <<>> /\ Head(body) \in {"-", "+"}
                digs == IF signed THEN Tail(body) ELSE body
            IN  IF ~AllDigits(digs) THEN Raised
                ELSE IF signed /\ Head(body) = "-" THEN PyInt(0 - DigitsValue(digs))
                ELSE PyInt(DigitsValue(digs))
      [] OTHER -> Raised

RECURSIVE NatText(_)
NatText(n) ==
    IF n < 10 THEN <<DigitChar(n)>> ELSE NatText(n \div 10) \o <<DigitChar(n % 10)>>

\* the text an f-string puts for {v}
Format(v) ==
    CASE v.t = "str" -> v.s
      [] v.t = "int" -> IF v.n < 0 THEN <<"-">> \o NatText(0 - v.n) ELSE NatText(v.n)
      [] OTHER -> <<"N", "o", "n", "e">>

\* int(x.coverDate.split('-')[0])
YearOf(coverDate) ==
    IF coverDate.t # "str" THEN Raised
    ELSE int(PyStr(Split(coverDate.s, <<"-">>)[1]))

DoiPrefix == <<"https://doi.org/">>
ScopusPrefix == <<"https://www.scopus.com/record/display.uri?eid=">>
ScopusSuffix == <<"&origin=resultslist">>

DoiUrl(doi) == PyStr(DoiPrefix \o Format(doi))
ScopusUrl(eid) == PyStr(ScopusPrefix \o Format(eid) \o ScopusSuffix)

UrlFor_always_doi(doi, eid) == DoiUrl(doi)

\* 176-179 and 232: the DOI link when there is a DOI, else the lookup link
UrlFor(doi, eid) == IF Truthy(doi) THEN DoiUrl(doi) ELSE ScopusUrl(eid)

---------------------------------------------------------------------------
(* The two record builders *)

SearchOnlyFields_parsed == [abstract |-> PyNone, keywords |-> <<PyStr(Strip(<<>>))>>]

\* 135, 148: what a search result cannot supply
SearchOnlyFields == [abstract |-> PyNone, keywords |-> <<>>]

\* result.f if hasattr(result, 'f') else None
AttrOrNone(result, f) == IF HasAttr(result, f) THEN result[f] ELSE PyNone

\* getref.py 126-184.  None when building the record raises.
extract_from_search_result(result) ==
    LET eid == AttrOrNone(result, "eid")
        doi == AttrOrNone(result, "doi")
        year == IF HasAttr(result, "coverDate") /\ Truthy(result.coverDate)
                THEN YearOf(result.coverDate) ELSE PyNone
        cites == IF HasAttr(result, "citedby_count") /\ Truthy(result.citedby_count)
                 THEN int(result.citedby_count) ELSE PyInt(0)
    IN  IF year = Raised \/ cites = Raised THEN PyNone
        ELSE [t |-> "record",
              eid |-> eid,
              doi |-> doi,
              abstract |-> SearchOnlyFields.abstract,
              year |-> year,
              citation_count |-> cites,
              keywords |-> SearchOnlyFields.keywords,
              url |-> UrlFor(doi, eid)]

\* the response of AbstractRetrieval(eid, view='FULL') when the call raises
RemoteFail == [t |-> "fail"]

KeywordSep == <<" ", "|", " ">>

\* [kw.strip() for kw in abstract.authkeywords.split(' | ')]
KeywordsOf(authkeywords) ==
    LET parts == Split(authkeywords.s, KeywordSep)
    IN  [k \in 1..Len(parts) |-> PyStr(Strip(parts[k]))]

\* x if x else None
OrNone(v) == IF Truthy(v) THEN v ELSE PyNone

\* getref.py 194-238, after the pacing sleep: the record built from the
\* response, None when the call or the building raises.
get_full_details(eid, abstract) ==
    IF abstract = RemoteFail THEN PyNone
    ELSE LET kwRaises == Truthy(abstract.authkeywords) /\ abstract.authkeywords.t # "str"
             keywords == IF Truthy(abstract.authkeywords) /\ ~kwRaises
                         THEN KeywordsOf(abstract.authkeywords) ELSE <<>>
             year == IF Truthy(abstract.coverDate)
                     THEN YearOf(abstract.coverDate) ELSE PyNone
             cites == IF Truthy(abstract.citedby_count)
                      THEN int(abstract.citedby_count) ELSE PyInt(0)
         IN  IF kwRaises \/ year = Raised \/ cites = Raised THEN PyNone
             ELSE [t |-> "record",
                   eid |-> eid,
                   doi |-> OrNone(abstract.doi),
                   abstract |-> OrNone(abstract.abstract),
                   year |-> year,
                   citation_count |-> cites,
                   keywords |-> keywords,
                   url |-> UrlFor(abstract.doi, eid)]

---------------------------------------------------------------------------
(* Inputs *)

MaxStubs == 2
MaxLimit == 2
MaxInterrupts == 1

T_X1 == <<"X", "1">>
T_X2 == <<"X", "2">>
T_X3 == <<"X", "3">>
T_D1 == <<"1", "0", ".", "1", "/", "d">>
T_Date == <<"2", "0", "2", "0", "-", "0", "1", "-", "1", "5">>
T_NA == <<"n", "/", "a">>
T_Kw == <<"a", " ", "|", " ", "b">>

\* stubs the search hands to the loop: a plain one, one with a DOI and a
\* numeric text as citation count, one whose citation field is no number,
\* one whose external id is None, one without the eid attribute
DriverStubs ==
    { [eid |-> PyStr(T_X1), doi |-> PyNone, coverDate |-> PyStr(T_Date),
       citedby_count |-> PyInt(5)],
      [eid |-> PyStr(T_X2), doi |-> PyStr(T_D1), coverDate |-> Missing,
       citedby_count |-> PyStr(<<"7">>)],
      [eid |-> PyStr(T_X3), doi |-> PyNone, coverDate |-> PyNone,
       citedby_count |-> PyStr(T_NA)],
      [eid |-> PyNone, doi |-> PyNone, coverDate |-> PyNone,
       citedby_count |-> PyNone],
      [eid |-> Missing, doi |-> PyNone, coverDate |-> PyNone,
       citedby_count |-> PyInt(1)] }

\* what AbstractRetrieval can answer in the loop: a failure, a full
\* response, a response whose citation field is no number
DriverResponses ==
    { RemoteFail,
      [doi |-> PyStr(T_D1), abstract |-> PyStr(<<"A">>), authkeywords |-> PyStr(T_Kw),
       coverDate |-> PyStr(T_Date), citedby_count |-> PyInt(3)],
      [doi |-> PyNone, abstract |-> PyNone, authkeywords |-> PyNone,
       coverDate |-> PyNone, citedby_count |-> PyStr(T_NA)] }

SeqsUpTo(S, n) == UNION {[1..k -> S] : k \in 0..n}

\* -limit N as argparse (type=int) accepts it, or absent
LimitValues == {PyNone} \cup {PyInt(n) : n \in (0 - 1)..MaxLimit}

---------------------------------------------------------------------------
(* State *)

VARIABLES
    pc,                 \* where the run is
    limit,              \* args.limit
    found,              \* search.results as the search answered it
    results,            \* search.results, truncated at line 255
    total,              \* len(results) before truncation
    i,                  \* index of the stub the loop is at (enumerate from 1)
    details,
    publications,
    full_details_count,
    search_only_count,
    failed_count,
    ret,                \* what search_and_download returned
    tally,              \* the tally of lines 283-287 was printed
    error,              \* which fatal error was raised, "none" if none
    exitCode,           \* -1 while the process runs
    interrupts,         \* KeyboardInterrupts delivered so far
    hist,               \* per stub index: tier calls made and terminal state
    log,                \* the pacing sleeps completed and remote calls issued
    nResult, nAbstract, nRecord, nTier,  \* one stub through the two builders
    sPubs, sState, sOut                  \* analyze_refs.py: print_summary's input, position, output

driverVars == <<pc, limit, found, results, total, i, details, publications,
                full_details_count, search_only_count, failed_count, ret,
                tally, error, exitCode, interrupts, hist, log>>
normVars == <<nResult, nAbstract, nRecord, nTier>>
sumVars == <<sPubs, sState, sOut>>
vars == <<driverVars, normVars, sumVars>>

Pending == [full |-> 0, basic |-> 0, fullOk |-> "none", term |-> "PENDING"]

\* results[:limit] under `if limit:`
Truncate(rs, lim) ==
    IF ~Truthy(lim) THEN rs
    ELSE IF lim.n >= 0 THEN SubSeq(rs, 1, IF lim.n < Len(rs) THEN lim.n ELSE Len(rs))
    ELSE SubSeq(rs, 1, IF Len(rs) + lim.n > 0 THEN Len(rs) + lim.n ELSE 0)

Init ==
    /\ pc = "search"
    /\ limit \in LimitValues
    /\ found = <<>>
    /\ results = <<>>
    /\ total = 0
    /\ i = 0
    /\ details = PyNone
    /\ publications = <<>>
    /\ full_details_count = 0
    /\ search_only_count = 0
    /\ failed_count = 0
    /\ ret = <<>>
    /\ tally = FALSE
    /\ error = "none"
    /\ exitCode = 0 - 1
    /\ interrupts = 0
    /\ hist = <<>>
    /\ log = <<>>
    /\ nResult = PyNone /\ nAbstract = RemoteFail /\ nRecord = PyNone /\ nTier = "off"
    /\ sPubs = <<>> /\ sState = "off" /\ sOut = PyNone

---------------------------------------------------------------------------
(* search_and_download *)

ErrorReturn_partial == publications

\* 291-293: except Exception: ... return []
ErrorReturn == <<>>

\* 246, 291-293: ScopusSearch raises
SearchRaises ==
    /\ pc = "search"
    /\ error' = "search"
    /\ ret' = ErrorReturn
    /\ pc' = "returned"
    /\ UNCHANGED <<limit, found, results, total, i, details, publications,
                   full_details_count, search_only_count, failed_count,
                   tally, exitCode, interrupts, hist, log, normVars, sumVars>>

\* 249-251: nothing matches
SearchEmpty ==
    /\ pc = "search"
    /\ ret' = <<>>
    /\ pc' = "returned"
    /\ UNCHANGED <<limit, found, results, total, i, details, publications,
                   full_details_count, search_only_count, failed_count,
                   tally, error, exitCode, interrupts, hist, log, normVars, sumVars>>

\* 246-262: the search answers a non-empty list, which is cut to the limit
SearchFound ==
    /\ pc = "search"
    /\ \E rs \in SeqsUpTo(DriverStubs, MaxStubs) :
          /\ rs # <<>>
          /\ found' = rs
          /\ total' = Len(rs)
          /\ results' = Truncate(rs, limit)
          /\ hist' = [k \in 1..Len(rs) |-> Pending]
    /\ publications' = <<>>
    /\ full_details_count' = 0
    /\ search_only_count' = 0
    /\ failed_count' = 0
    /\ i' = 0
    /\ pc' = "loop"
    /\ UNCHANGED <<limit, details, ret, tally, error, exitCode, interrupts,
                   log, normVars, sumVars>>

\* 264-268: the next stub; reading result.eid raises when the stub has no
\* such attribute, which the handler of 291-293 turns into return []
NextStub ==
    /\ pc = "loop"
    /\ i < Len(results)
    /\ i' = i + 1
    /\ IF HasAttr(results[i + 1], "eid")
       THEN /\ pc' = "sleep"
            /\ hist' = [hist EXCEPT ![i + 1].full = @ + 1]
            /\ UNCHANGED <<ret, error>>
       ELSE /\ pc' = "returned"
            /\ error' = "loop"
            /\ ret' = ErrorReturn
            /\ UNCHANGED hist
    /\ UNCHANGED <<limit, found, results, total, details, publications,
                   full_details_count, search_only_count, failed_count,
                   tally, exitCode, interrupts, log, normVars, sumVars>>

Sleep_skipped ==
    /\ pc = "sleep"
    /\ pc' = "call"
    /\ UNCHANGED <<limit, found, results, total, i, details, publications,
                   full_details_count, search_only_count, failed_count, ret,
                   tally, error, exitCode, interrupts, hist, log, normVars, sumVars>>

\* 193: the pacing sleep runs to its end
Sleep ==
    /\ pc = "sleep"
    /\ log' = Append(log, "sleep")
    /\ pc' = "call"
    /\ UNCHANGED <<limit, found, results, total, i, details, publications,
                   full_details_count, search_only_count, failed_count, ret,
                   tally, error, exitCode, interrupts, hist, normVars, sumVars>>

\* 194-238: the remote call and the building of the record
Call ==
    /\ pc = "call"
    /\ \E abstract \in DriverResponses :
          details' = get_full_details(results[i].eid, abstract)
    /\ hist' = [hist EXCEPT ![i].fullOk = IF details' = PyNone THEN "failed" ELSE "ok"]
    /\ log' = Append(log, "call")
    /\ pc' = "resolve"
    /\ UNCHANGED <<limit, found, results, total, i, publications,
                   full_details_count, search_only_count, failed_count, ret,
                   tally, error, exitCode, interrupts, normVars, sumVars>>

NeedsFallback_always(d) == TRUE

\* 271: if details is None
NeedsFallback(d) == d = PyNone

\* `if details:` on a record or None
IsRecord(d) == d # PyNone

FailedAfter_never(fallback, d) == failed_count

\* 275-276: failed_count += 1
FailedAfter(fallback, d) ==
    IF fallback /\ ~IsRecord(d) THEN failed_count + 1 ELSE failed_count

Appended_front(d) == IF IsRecord(d) THEN <<d>> \o publications ELSE publications

\* 280-281: if details: publications.append(details)
Appended(d) == IF IsRecord(d) THEN Append(publications, d) ELSE publications

\* 270-281: fall back to the stub, count, append
Resolve ==
    /\ pc = "resolve"
    /\ LET fallback == NeedsFallback(details)
           d == IF fallback THEN extract_from_search_result(results[i]) ELSE details
       IN  /\ details' = d
           /\ full_details_count' =
                 IF fallback THEN full_details_count ELSE full_details_count + 1
           /\ search_only_count' =
                 IF fallback /\ IsRecord(d) THEN search_only_count + 1
                 ELSE search_only_count
           /\ failed_count' = FailedAfter(fallback, d)
           /\ publications' = Appended(d)
           /\ hist' = [hist EXCEPT
                 ![i].basic = IF fallback THEN @ + 1 ELSE @,
                 ![i].term = IF ~fallback THEN "FULL"
                             ELSE IF IsRecord(d) THEN "BASIC" ELSE "FAILED"]
    /\ pc' = "loop"
    /\ UNCHANGED <<limit, found, results, total, i, ret, tally, error, exitCode,
                   interrupts, log, normVars, sumVars>>

\* 283-289: the loop is over: tally, return publications
Finish ==
    /\ pc = "loop"
    /\ i = Len(results)
    /\ tally' = TRUE
    /\ ret' = publications
    /\ pc' = "returned"
    /\ UNCHANGED <<limit, found, results, total, i, details, publications,
                   full_details_count, search_only_count, failed_count,
                   error, exitCode, interrupts, hist, log, normVars, sumVars>>

---------------------------------------------------------------------------
(* main and __main__ *)

\* 347-349
NothingRetrieved ==
    /\ pc = "returned"
    /\ ret = <<>>
    /\ exitCode' = 1
    /\ pc' = "exited"
    /\ UNCHANGED <<limit, found, results, total, i, details, publications,
                   full_details_count, search_only_count, failed_count, ret,
                   tally, error, interrupts, hist, log, normVars, sumVars>>

\* 351-364: the file is written, main returns
SaveOk ==
    /\ pc = "returned"
    /\ ret # <<>>
    /\ exitCode' = 0
    /\ pc' = "exited"
    /\ UNCHANGED <<limit, found, results, total, i, details, publications,
                   full_details_count, search_only_count, failed_count, ret,
                   tally, error, interrupts, hist, log, normVars, sumVars>>

\* 311, 373-375: open() raises
SaveFails ==
    /\ pc = "returned"
    /\ ret # <<>>
    /\ error' = "save"
    /\ exitCode' = 1
    /\ pc' = "exited"
    /\ UNCHANGED <<limit, found, results, total, i, details, publications,
                   full_details_count, search_only_count, failed_count, ret,
                   tally, interrupts, hist, log, normVars, sumVars>>

\* 192-194, 237-238: a KeyboardInterrupt raised inside get_full_details is
\* caught by its bare except; the call may or may not have gone out yet
InterruptInFetch ==
    /\ pc \in {"sleep", "call"}
    /\ interrupts < MaxInterrupts
    /\ interrupts' = interrupts + 1
    /\ details' = PyNone
    /\ hist' = [hist EXCEPT ![i].fullOk = "failed"]
    /\ \E issued \in BOOLEAN :
          log' = IF pc = "call" /\ issued THEN Append(log, "call") ELSE log
    /\ pc' = "resolve"
    /\ UNCHANGED <<limit, found, results, total, i, publications,
                   full_details_count, search_only_count, failed_count, ret,
                   tally, error, exitCode, normVars, sumVars>>

\* 370-372: a KeyboardInterrupt raised anywhere else reaches __main__
InterruptExit ==
    /\ pc \in {"search", "loop", "resolve", "returned"}
    /\ interrupts < MaxInterrupts
    /\ interrupts' = interrupts + 1
    /\ exitCode' = 130
    /\ pc' = "exited"
    /\ UNCHANGED <<limit, found, results, total, i, details, publications,
                   full_details_count, search_only_count, failed_count, ret,
                   tally, error, hist, log, normVars, sumVars>>

Next ==
    \/ SearchRaises
    \/ SearchEmpty
    \/ SearchFound
    \/ NextStub
    \/ Sleep
    \/ Call
    \/ Resolve
    \/ Finish
    \/ NothingRetrieved
    \/ SaveOk
    \/ SaveFails
    \/ InterruptInFetch
    \/ InterruptExit

Spec == Init /\ [][Next]_vars

---------------------------------------------------------------------------
(* The two builders on one stub and one response, over every shape of field *)

T_Short == <<"2", "0", "-", "0", "1">>
T_BadDate == <<"a", "b", "c", "d", "-", "0", "1">>
T_Year == <<"2", "0", "2", "1">>
T_KwGap == <<" ", "a", " ", "|", " ", " ", "|", " ", "b", " ">>
T_KwBar == <<"a", "|", "b">>

NormStubs ==
    [eid : {Missing, PyNone, PyStr(T_X1)},
     doi : {Missing, PyNone, PyStr(<<>>), PyStr(T_D1)},
     coverDate : {Missing, PyNone, PyStr(<<>>), PyStr(T_Date), PyStr(T_Short),
                  PyStr(T_BadDate), PyStr(T_Year)},
     citedby_count : {Missing, PyNone, PyInt(0), PyInt(5), PyInt(0 - 3),
                      PyStr(<<"7">>), PyStr(<<"-", "2">>), PyStr(T_NA), PyStr(<<>>)}]

NormResponses ==
    [doi : {PyNone, PyStr(<<>>), PyStr(T_D1)},
     abstract : {PyNone, PyStr(<<"A">>)},
     authkeywords : {PyNone, PyStr(<<>>), PyStr(T_Kw), PyStr(T_KwGap), PyStr(T_KwBar)},
     coverDate : {PyNone, PyStr(T_Date), PyStr(T_BadDate)},
     citedby_count : {PyNone, PyInt(0), PyInt(5), PyInt(0 - 3), PyStr(<<"7">>),
                      PyStr(T_NA)}]

InitNorm ==
    /\ \/ /\ nResult \in NormStubs
          /\ nAbstract = RemoteFail
       \/ /\ nResult \in {r \in NormStubs : r.coverDate = PyNone /\ r.citedby_count = PyNone}
          /\ nAbstract \in NormResponses
    /\ nRecord = PyNone
    /\ nTier = "PENDING"
    /\ pc = "off"
    /\ limit = PyNone
    /\ found = <<>>
    /\ results = <<>>
    /\ total = 0
    /\ i = 0
    /\ details = PyNone
    /\ publications = <<>>
    /\ full_details_count = 0
    /\ search_only_count = 0
    /\ failed_count = 0
    /\ ret = <<>>
    /\ tally = FALSE
    /\ error = "none"
    /\ exitCode = 0 - 1
    /\ interrupts = 0
    /\ hist = <<>>
    /\ log = <<>>
    /\ sPubs = <<>> /\ sState = "off" /\ sOut = PyNone

\* 268: details = get_full_details(result.eid)
FetchFull ==
    /\ nTier = "PENDING"
    /\ HasAttr(nResult, "eid")
    /\ nRecord' = get_full_details(nResult.eid, nAbstract)
    /\ nTier' = IF nRecord' = PyNone THEN "FULL_FAILED" ELSE "FULL"
    /\ UNCHANGED <<nResult, nAbstract, driverVars, sumVars>>

\* 272: details = extract_from_search_result(result)
Normalize ==
    /\ nTier \in {"PENDING", "FULL_FAILED"}
    /\ nRecord' = extract_from_search_result(nResult)
    /\ nTier' = IF nRecord' = PyNone THEN "FAILED" ELSE "BASIC"
    /\ UNCHANGED <<nResult, nAbstract, driverVars, sumVars>>

NextNorm == FetchFull \/ Normalize

SpecNorm == InitNorm /\ [][NextNorm]_vars

---------------------------------------------------------------------------
(* analyze_refs.py: print_summary over a loaded publication list *)

MaxPubs == 4

\* the publications of the JSON file, by the fields print_summary counts
SummaryPubs ==
    [citation_count : {PyNone, PyInt(1), PyInt(3), PyInt(5), PyInt(7)},
     doi : {PyNone},
     abstract : {PyNone},
     keywords : {<<>>}]
    \cup
    { [citation_count |-> PyInt(3), doi |-> PyStr(T_D1), abstract |-> PyNone,
       keywords |-> <<>>],
      [citation_count |-> PyInt(7), doi |-> PyStr(T_D1), abstract |-> PyStr(<<"A">>),
       keywords |-> <<PyStr(<<"a">>)>>] }

\* sorted(xs): ascending, by insertion
RECURSIVE InsertSorted(_, _)
InsertSorted(x, xs) ==
    IF xs = <<>> THEN <<x>>
    ELSE IF x <= Head(xs) THEN <<x>> \o xs
    ELSE <<Head(xs)>> \o InsertSorted(x, Tail(xs))

RECURSIVE sorted(_)
sorted(xs) == IF xs = <<>> THEN <<>> ELSE InsertSorted(Head(xs), sorted(Tail(xs)))

RECURSIVE sum(_)
sum(xs) == IF xs = <<>> THEN 0 ELSE Head(xs) + sum(Tail(xs))

max(xs) == CHOOSE m \in {xs[k] : k \in 1..Len(xs)} : \A k \in 1..Len(xs) : xs[k] <= m

\* f"{num/den:.1f}" in tenths, num >= 0 and den > 0: the nearest tenth, a
\* quotient that lies exactly between two tenths goes to the even one
Tenths(num, den) ==
    LET q == (10 * num) \div den
        r == (10 * num) % den
    IN  IF 2 * r > den THEN q + 1
        ELSE IF 2 * r < den THEN q
        ELSE q + (q % 2)

\* 54: [p['citation_count'] for p in publications if p['citation_count'] is not None]
RECURSIVE CitationsOf(_)
CitationsOf(pubs) ==
    IF pubs = <<>> THEN <<>>
    ELSE (IF Head(pubs).citation_count # PyNone THEN <<Head(pubs).citation_count.n>>
          ELSE <<>>) \o CitationsOf(Tail(pubs))

Median_textbook(citations) ==
    LET s == sorted(citations)
        n == Len(s)
    IN  IF n % 2 = 1 THEN s[n \div 2 + 1] ELSE (s[n \div 2] + s[n \div 2 + 1]) \div 2

\* 60: sorted(citations)[len(citations)//2]
Median(citations) == sorted(citations)[Len(citations) \div 2 + 1]

\* 63-65: sum(1 for p in publications if p[f])
CountWith(pubs, f) ==
    Cardinality({k \in 1..Len(pubs) :
        IF f = "keywords" THEN pubs[k].keywords # <<>> ELSE Truthy(pubs[k][f])})

\* 53-70: the citation block when there are citations, then the three
\* completeness lines, whose divisions raise ZeroDivisionError on an empty list
print_summary(pubs) ==
    LET citations == CitationsOf(pubs)
        stats == IF citations # <<>>
                 THEN [printed |-> TRUE,
                       total |-> sum(citations),
                       average |-> Tenths(sum(citations), Len(citations)),
                       most |-> max(citations),
                       median |-> Median(citations)]
                 ELSE [printed |-> FALSE]
    IN  IF Len(pubs) = 0 THEN Raised
        ELSE [t |-> "summary",
              citations |-> stats,
              with_doi |-> CountWith(pubs, "doi"),
              pct_doi |-> Tenths(100 * CountWith(pubs, "doi"), Len(pubs)),
              with_abstract |-> CountWith(pubs, "abstract"),
              pct_abstract |-> Tenths(100 * CountWith(pubs, "abstract"), Len(pubs)),
              with_keywords |-> CountWith(pubs, "keywords"),
              pct_keywords |-> Tenths(100 * CountWith(pubs, "keywords"), Len(pubs))]

InitSummary ==
    /\ sPubs \in SeqsUpTo(SummaryPubs, MaxPubs)
    /\ sState = "loaded"
    /\ sOut = PyNone
    /\ nResult = PyNone /\ nAbstract = RemoteFail /\ nRecord = PyNone /\ nTier = "off"
    /\ pc = "off"
    /\ limit = PyNone
    /\ found = <<>>
    /\ results = <<>>
    /\ total = 0
    /\ i = 0
    /\ details = PyNone
    /\ publications = <<>>
    /\ full_details_count = 0
    /\ search_only_count = 0
    /\ failed_count = 0
    /\ ret = <<>>
    /\ tally = FALSE
    /\ error = "none"
    /\ exitCode = 0 - 1
    /\ interrupts = 0
    /\ hist = <<>>
    /\ log = <<>>

\* analyze_refs.py 33-84, called at 284
PrintSummary ==
    /\ sState = "loaded"
    /\ sOut' = print_summary(sPubs)
    /\ sState' = IF sOut' = Raised THEN "raised" ELSE "done"
    /\ UNCHANGED <<sPubs, driverVars, normVars>>

NextSummary == PrintSummary

SpecSummary == InitSummary /\ [][NextSummary]_vars

---------------------------------------------------------------------------
(* Claims about the reconciliation loop, checked under Spec *)

Min(a, b) == IF a < b THEN a ELSE b

Terminal == {"FULL", "BASIC", "FAILED"}

WithTerm(term) == {k \in DOMAIN hist : hist[k].term = term}

Attempted == {k \in DOMAIN hist : hist[k].full > 0}

\* the external ids of the stubs 1..n that reached FULL or BASIC, in stub order
RECURSIVE KeptEids(_)
KeptEids(n) ==
    IF n = 0 THEN <<>>
    ELSE KeptEids(n - 1) \o
         (IF hist[n].term \in {"FULL", "BASIC"} THEN <<results[n].eid>> ELSE <<>>)

EidsOf(records) == [j \in 1..Len(records) |-> records[j].eid]

\* C1: the number of Records equals full_details_count + search_only_count in
\* every state; after every completed loop iteration the three counters add
\* up to the number of stubs attempted; and when the loop is over they add up
\* to the length of the capped stub sequence and the returned list has
\* full_details_count + search_only_count entries.
C1_CountsAddUp ==
    /\ Len(publications) = full_details_count + search_only_count
    /\ pc = "loop" =>
          /\ full_details_count + search_only_count + failed_count = i
          /\ Cardinality(Attempted) = i
    /\ tally =>
          /\ Len(ret) = full_details_count + search_only_count
          /\ full_details_count + search_only_count + failed_count = Len(results)
          /\ Cardinality(Attempted) = Len(results)

C1_Witness ==
    /\ tally
    /\ search_only_count = 1
    /\ failed_count = 1

C3_TwoTierStateMachine ==
    /\ \A k \in DOMAIN hist :
          /\ hist[k].full <= 1
          /\ hist[k].basic <= 1
          /\ k > i => hist[k] = Pending
          /\ k < i => hist[k].term \in Terminal
          /\ (k = i /\ pc = "loop") => hist[k].term \in Terminal
          /\ hist[k].fullOk # "none" => hist[k].full = 1
          /\ hist[k].term = "PENDING" => hist[k].basic = 0
          /\ hist[k].term = "FULL" =>
                hist[k].full = 1 /\ hist[k].fullOk = "ok" /\ hist[k].basic = 0
          /\ hist[k].term \in {"BASIC", "FAILED"} =>
                hist[k].full = 1 /\ hist[k].fullOk = "failed" /\ hist[k].basic = 1
    /\ full_details_count = Cardinality(WithTerm("FULL"))
    /\ search_only_count = Cardinality(WithTerm("BASIC"))
    /\ failed_count = Cardinality(WithTerm("FAILED"))

C3_Witness ==
    /\ tally
    /\ WithTerm("FULL") # {}
    /\ WithTerm("FAILED") # {}

\* C4: with a cap N >= 0 and L stubs found, the loop runs over the first
\* min(N, L) stubs and no stub beyond the first N is ever fetched.
C4_CapRespected ==
    (limit.t = "int" /\ limit.n >= 0 /\ found # <<>>) =>
        /\ results = SubSeq(found, 1, Min(limit.n, Len(found)))
        /\ \A k \in DOMAIN hist : k > limit.n => hist[k].full = 0
        /\ tally => Cardinality(Attempted) = Min(limit.n, Len(found))

\* C5: a run that was interrupted after at least one identifier had been
\* taken up has printed the tally by the time it exits.
C5_TallyOnInterrupt ==
    (pc = "exited" /\ interrupts > 0 /\ i > 0) => tally

\* C6: the exit code is 130 when an interrupt was delivered, else 1 when
\* nothing was retrieved or a fatal error was raised, else 0.
C6_ExitCodes ==
    pc = "exited" =>
        exitCode = IF interrupts > 0 THEN 130
                   ELSE IF ret = <<>> \/ error # "none" THEN 1
                   ELSE 0

\* C7: every remote detail call comes right after a completed pacing sleep, so
\* no call goes out before its sleep and two calls always have a sleep between.
C7_SleepBeforeEveryCall ==
    \A p \in 1..Len(log) : log[p] = "call" => (p > 1 /\ log[p - 1] = "sleep")

C7_Witness ==
    /\ Len(log) = 4
    /\ log[2] = "call"
    /\ log[4] = "call"

---------------------------------------------------------------------------
(* Claims about the two builders, checked under SpecNorm *)

Contains(s, sub) == \E p \in 1..Len(s) : MatchAt(s, sub, p)

\* C8: a Record that extract_from_search_result built has no abstract and an
\* empty keyword list, whatever the stub carries.
C8_BasicHasNoEnrichment ==
    nTier = "BASIC" =>
        /\ nRecord.abstract = PyNone
        /\ nRecord.keywords = <<>>

C8_Witness ==
    /\ nTier = "BASIC"
    /\ Truthy(nResult.doi)
    /\ Truthy(nResult.coverDate)
    /\ Truthy(nResult.citedby_count)

\* C9: the citation_count of a Record of either tier is an integer >= 0.
C9_CitationsNonNegative ==
    nTier \in {"FULL", "BASIC"} =>
        /\ nRecord.citation_count.t = "int"
        /\ nRecord.citation_count.n >= 0

\* C10: the url of a Record of either tier is not empty; it is the DOI link
\* of the Record's doi when that is a non-empty text, else the lookup link
\* holding the Record's external id; a stub X1 without DOI whose FULL fetch
\* failed gives a BASIC Record with the lookup link holding X1.
C10_UrlFromDoiOrEid ==
    nTier \in {"FULL", "BASIC"} =>
        /\ nRecord.url.t = "str"
        /\ nRecord.url.s # <<>>
        /\ Truthy(nRecord.doi) => nRecord.url.s = DoiPrefix \o nRecord.doi.s
        /\ ~Truthy(nRecord.doi) =>
              /\ nRecord.url.s = ScopusPrefix \o Format(nRecord.eid) \o ScopusSuffix
              /\ Contains(nRecord.url.s, Format(nRecord.eid))
        /\ (nTier = "BASIC" /\ nResult.eid = PyStr(T_X1) /\ ~HasAttr(nResult, "doi")) =>
              /\ SubSeq(nRecord.url.s, 1, 1) = ScopusPrefix
              /\ Contains(nRecord.url.s, T_X1)

C10_Witness ==
    /\ nTier = "BASIC"
    /\ nAbstract = RemoteFail
    /\ nResult.eid = PyStr(T_X1)
    /\ ~HasAttr(nResult, "doi")
    /\ Contains(nRecord.url.s, T_X1)

\* the stub's cover date is absent, empty, or its leading component parses
DateParses(result) ==
    (HasAttr(result, "coverDate") /\ Truthy(result.coverDate)) =>
        YearOf(result.coverDate) # Raised

\* the stub's citation field is absent, empty, zero, or parses
CitationParses(result) ==
    (HasAttr(result, "citedby_count") /\ Truthy(result.citedby_count)) =>
        int(result.citedby_count) # Raised

\* the stub's citation field is absent, None, or a text that is no number
CitationUnusable(result) ==
    \/ ~HasAttr(result, "citedby_count")
    \/ result.citedby_count = PyNone
    \/ /\ result.citedby_count.t = "str"
       /\ ~AllDigits(Strip(result.citedby_count.s))
       /\ ~(Strip(result.citedby_count.s) # <<>>
            /\ Head(Strip(result.citedby_count.s)) \in {"-", "+"}
            /\ AllDigits(Tail(Strip(result.citedby_count.s))))

\* the leading component of a cover date text
LeadingPart(coverDate) == Split(coverDate.s, <<"-">>)[1]

\* the cover date is a text whose leading component is four digits
DateWellFormed(result) ==
    /\ HasAttr(result, "coverDate")
    /\ result.coverDate.t = "str"
    /\ Len(LeadingPart(result.coverDate)) = 4
    /\ AllDigits(LeadingPart(result.coverDate))

\* C13: a stub whose citation field is missing, None or no number (and whose
\* date gives no trouble) is normalized to a Record with citation_count 0; it
\* is not dropped.
C13_UnusableCitationIsZero ==
    (nTier \in {"BASIC", "FAILED"} /\ CitationUnusable(nResult) /\ DateParses(nResult)) =>
        /\ nTier = "BASIC"
        /\ nRecord.citation_count = PyInt(0)

\* C14: a stub (whose citation field gives no trouble) is normalized to a
\* Record whose year is the number of the four leading digits of the cover
\* date when the date is well-formed, and None when it is absent or malformed.
C14_YearFromLeadingDigits ==
    (nTier \in {"BASIC", "FAILED"} /\ CitationParses(nResult)) =>
        /\ nTier = "BASIC"
        /\ nRecord.year = IF DateWellFormed(nResult)
                          THEN PyInt(DigitsValue(LeadingPart(nResult.coverDate)))
                          ELSE PyNone

\* C15: for a stub whose external id is missing or None the normalizer
\* returns None, so no Record is emitted for it.
C15_NoRecordWithoutEid ==
    (nTier \in {"BASIC", "FAILED"} /\ AttrOrNone(nResult, "eid") = PyNone) =>
        /\ nTier = "FAILED"
        /\ nRecord = PyNone

\* the entries of a list of texts that are not empty, in order
RECURSIVE NonEmptyOnly(_)
NonEmptyOnly(ks) ==
    IF ks = <<>> THEN <<>>
    ELSE (IF Head(ks).s # <<>> THEN <<Head(ks)>> ELSE <<>>) \o NonEmptyOnly(Tail(ks))

\* C16: the keywords of a FULL Record are the trimmed pieces of the raw
\* keyword field with the empty ones dropped, in order; none is empty.
C16_KeywordsTrimmedNoEmpty ==
    nTier = "FULL" =>
        /\ \A k \in 1..Len(nRecord.keywords) : nRecord.keywords[k].s # <<>>
        /\ Truthy(nAbstract.authkeywords) =>
              nRecord.keywords = NonEmptyOnly(KeywordsOf(nAbstract.authkeywords))

---------------------------------------------------------------------------
(* The return value of search_and_download, checked under Spec *)

\* C17: search_and_download returns either the empty list or, after the
\* tally, the Record list that accounts for every stub of the capped
\* sequence; an error raised in the loop outside the two tier calls makes it
\* return the empty list whatever was accumulated, and main then exits 1
\* (130 if a KeyboardInterrupt ends the run before that).
C17_AllOrNothing ==
    /\ (pc = "returned" \/ (pc = "exited" /\ exitCode # 130)) =>
          \/ ret = <<>>
          \/ /\ tally
             /\ error \in {"none", "save"}
             /\ ret = publications
             /\ EidsOf(ret) = KeptEids(Len(results))
             /\ \A k \in 1..Len(results) : hist[k].term \in Terminal
    /\ error = "loop" =>
          /\ ret = <<>>
          /\ ~tally
          /\ pc \in {"returned", "exited"}
          /\ pc = "exited" => (exitCode = 1 \/ (exitCode = 130 /\ interrupts > 0))

C17_Witness ==
    /\ error = "loop"
    /\ Len(publications) = 1
    /\ ret = <<>>
    /\ pc = "exited"
    /\ exitCode = 1

---------------------------------------------------------------------------
(* Claims about print_summary, checked under SpecSummary *)

\* C11: over an empty Record set print_summary runs to its end and reports
\* each of the three completeness ratios as 0%.
C11_EmptyReportsZero ==
    (sState \in {"done", "raised"} /\ sPubs = <<>>) =>
        /\ sState = "done"
        /\ sOut.pct_doi = 0
        /\ sOut.pct_abstract = 0
        /\ sOut.pct_keywords = 0

\* C12: the median printed for a non-empty list of n citation counts is the
\* element with index floor(n/2) of the ascending list: at most floor(n/2)
\* counts are smaller than it and at least floor(n/2)+1 are not larger; and
\* the counts 1, 3, 5, 7, in any order, give 5.
C12_MedianIsUpperMiddle ==
    (sState = "done" /\ CitationsOf(sPubs) # <<>>) =>
        LET cs == CitationsOf(sPubs)
            n == Len(cs)
            m == sOut.citations.median
        IN  /\ sOut.citations.printed
            /\ \E k \in 1..n : cs[k] = m
            /\ Cardinality({k \in 1..n : cs[k] < m}) <= n \div 2
            /\ Cardinality({k \in 1..n : cs[k] <= m}) >= n \div 2 + 1
            /\ {cs[k] : k \in 1..n} = {1, 3, 5, 7} /\ n = 4 => m = 5

C12_Witness ==
    /\ sState = "done"
    /\ CitationsOf(sPubs) = <<7, 1, 5, 3>>
    /\ sOut.citations.median = 5

============================================================================
